---- MODULE Spec2Model ----
(***************************************************************************)
(* Model of the enviro-governance-platform backend (backend/app).          *)
(*                                                                         *)
(* Two services are modelled together with the HTTP handlers of main.py    *)
(* that call them:                                                         *)
(*   - GovernanceService  (services/governance_service.py)                 *)
(*   - RemediationService (services/remediation_service.py)                *)
(* and the Pydantic request schemas (schemas.py) that stand in front of    *)
(* the handlers.                                                           *)
(*                                                                         *)
(* Number representation.                                                  *)
(*   Scores and per-vector weights are decimals with two places, held as   *)
(*   integers in hundredths (0.85 is 85); arithmetic on them is carried    *)
(*   out exactly, the aggregate score as a fraction [num, den] of          *)
(*   hundredths, the consensus (a value rounded to 3 places by the code)   *)
(*   as an integer in thousandths, the confidence in millionths.           *)
(*   The exact quotient stands for the double the code computes; the two   *)
(*   differ by a few ulp at most, which decides a comparison only for an   *)
(*   input whose exact aggregate score is itself a threshold.              *)
(*   Voter weights go through the comparison abs(total - 1.0) > 0.01,      *)
(*   whose outcome at the boundary is decided by binary floating point;    *)
(*   they are therefore modelled as IEEE-754 doubles (see Dbl below).      *)
(***************************************************************************)
EXTENDS Integers, Sequences, FiniteSets, TLC

(***************************************************************************)
(* Bounds of the model.                                                    *)
(***************************************************************************)
MaxVectors     == 3   \* longest vector list given to the service directly
MaxVoters      == 2   \* longest voter list of a request
MaxInvocations == 2   \* invocations in flight at once on the shared instances
MaxVotes       == 2   \* longest list of stakeholder votes given to the agent
MaxHttpVectors == 1   \* longest vector list of an HTTP request

(***************************************************************************)
(* Input grids (hundredths).                                               *)
(***************************************************************************)
ScoreGrid        == {-100, -50, 0, 50, 85, 90, 100}
VectorWeightGrid == {<<>>, <<0>>, <<25>>}     \* <<>> is a null weight
VoterWeightGrid  == {1, 2, 49, 50, 98, 99, 100}
\* aggregate_score values (thousandths) around the decision thresholds
AggregateGrid    == {-1000, -401, -400, -399, 0, 599, 600, 601, 1000}
\* consensus values (thousandths) around the decision thresholds
ConsensusGrid    == {0, 299, 300, 301, 599, 600, 601, 1000}
BudgetTiers      == {"low", "medium", "high"}
\* a value outside the three recognised tiers
OtherTier        == "premium"
\* lengths of pollution_description around the minimum of 10
DescriptionLengths == {0, 9, 10, 11}

VARIABLES
    pc,        \* position of the HTTP server: "idle", the handler entered, "done"
    request,   \* the HTTP request being served
    response,  \* the HTTP response delivered: [status, body]
    call,      \* a direct call of a service function or handler: [fn, args...]
    result,    \* outcome of the direct call: [raised, value]
    frames     \* the invocations in flight on the shared service instances:
               \* slot -> the coroutine's frame (arguments, position, locals)

vars == <<pc, request, response, call, result, frames>>

----------------------------------------------------------------------------
(***************************************************************************)
(* Generic helpers.                                                        *)
(***************************************************************************)
SeqsUpTo(S, n) == UNION {[1..k -> S] : k \in 0..n}

RECURSIVE SumSeq(_)
SumSeq(s) == IF s = <<>> THEN 0 ELSE Head(s) + SumSeq(Tail(s))

Abs(x) == IF x < 0 THEN -x ELSE x

\* floor(x / y) for y > 0 and any integer x (Python's //)
FloorDiv(x, y) == IF x >= 0 THEN x \div y ELSE -((-x + y - 1) \div y)

RECURSIVE SqrtSearch(_, _, _)
SqrtSearch(n, lo, hi) ==
    IF lo >= hi THEN lo
    ELSE LET mid == (lo + hi + 1) \div 2
         IN  IF mid * mid <= n THEN SqrtSearch(n, mid, hi)
                               ELSE SqrtSearch(n, lo, mid - 1)

\* floor of the square root of n >= 0
ISqrt(n) == SqrtSearch(n, 0, 46340)

----------------------------------------------------------------------------
(***************************************************************************)
(* IEEE-754 doubles near the two-place decimals.                           *)
(*                                                                         *)
(* A double x close to c/100 is the pair [c, r] with                       *)
(*      x = c/100 + r / (100 * 2^59)     exactly.                          *)
(* Every double in [2^-7, 4) is a multiple of 2^-59, so r is an integer;   *)
(* for the parsed literals and their short sums |r| stays below 2^15.      *)
(* A double with ulp 2^-e is a multiple of 2^-e: with                      *)
(*      m = (c * 2^e) mod 100                                              *)
(* the doubles around c/100 are c/100 + (rho + k*u)/(100*2^59), where      *)
(* u = 100 * 2^(59-e) is one ulp and rho = -m * 2^(59-e).                  *)
(***************************************************************************)
RECURSIVE Pow2(_)
Pow2(e) == IF e = 0 THEN 1 ELSE 2 * Pow2(e - 1)

RECURSIVE Pow2Mod(_, _)
Pow2Mod(e, m) == IF e = 0 THEN 1 % m ELSE (2 * Pow2Mod(e - 1, m)) % m

\* e such that the ulp of the positive value c/100 + r/(100*2^59) is 2^-e:
\* the value lies in [2^j, 2^(j+1)) and e = 52 - j.
RECURSIVE DblExponentFrom(_, _, _)
DblExponentFrom(c, r, j) ==
    LET num == IF j < 0 THEN c * Pow2(-j) ELSE c
        thr == IF j < 0 THEN 100 ELSE 100 * Pow2(j)
    IN  IF num > thr \/ (num = thr /\ r >= 0) \/ j <= -7
        THEN 52 - j
        ELSE DblExponentFrom(c, r, j - 1)

DblExponent(c, r) == DblExponentFrom(c, r, 2)

\* round-to-nearest, ties-to-even, of the positive real c/100 + r/(100*2^59)
DblRoundPos(c, r) ==
    LET e    == DblExponent(c, r)
        u    == 100 * Pow2(59 - e)
        m200 == (c * Pow2Mod(e, 200)) % 200
        m    == m200 % 100
        par  == m200 \div 100          \* parity of the mantissa at k = 0
        rho  == -m * Pow2(59 - e)
        k    == FloorDiv(r - rho, u)
        d    == (r - rho) - k * u
        kk   == IF 2 * d < u THEN k
                ELSE IF 2 * d > u THEN k + 1
                ELSE IF (par + k) % 2 = 0 THEN k ELSE k + 1
    IN  [c |-> c, r |-> rho + kk * u]

\* An exact zero, and a difference of nearby doubles whose decimal parts
\* cancel (exact by Sterbenz' lemma), need no rounding.
DblRound(c, r) ==
    IF c = 0 THEN [c |-> 0, r |-> r]
    ELSE IF c < 0 THEN LET p == DblRoundPos(-c, -r) IN [c |-> -p.c, r |-> -p.r]
    ELSE DblRoundPos(c, r)

\* the double a decimal literal c/100 parses to
Dbl(c) == DblRound(c, 0)

DblAdd(a, b) == DblRound(a.c + b.c, a.r + b.r)
DblSub(a, b) == DblRound(a.c - b.c, a.r - b.r)
DblAbs(a)    == IF a.c < 0 \/ (a.c = 0 /\ a.r < 0) THEN [c |-> -a.c, r |-> -a.r] ELSE a
DblGt(a, b)  == a.c > b.c \/ (a.c = b.c /\ a.r > b.r)

\* sum(voter.weight for voter in v): int 0, then one double addition per voter
RECURSIVE DblSumFrom(_, _)
DblSumFrom(acc, ws) ==
    IF ws = <<>> THEN acc ELSE DblSumFrom(DblAdd(acc, Dbl(Head(ws))), Tail(ws))

DblSum(ws) == DblSumFrom([c |-> 0, r |-> 0], ws)
----------------------------------------------------------------------------
(***************************************************************************)
(* schemas.py: field constraints and validators.                           *)
(*                                                                         *)
(* A voter is its weight (hundredths); id and name play no part in any     *)
(* computation.  A vector is [name, score, weight], weight <<>> for None.  *)
(***************************************************************************)
\* VoterWeight.weight: float, ge=0.0, le=1.0
VoterWeightValid(w) == 0 <= w /\ w <= 100

\* VotingVector: score ge=-1.0 le=1.0; weight None or ge=0.0 le=1.0
VotingVectorValid(v) ==
    /\ -100 <= v.score /\ v.score <= 100
    /\ \A i \in DOMAIN v.weight : 0 <= v.weight[i] /\ v.weight[i] <= 100

\* abs(total - 1.0) > 0.01 over doubles; the same expression stands in
\* GovernanceVoteRequest.validate_voter_weights and in submit_governance_vote
WeightSumOff(voters) ==
    DblGt(DblAbs(DblSub(DblSum(voters), Dbl(100))), Dbl(1))

\* @validator('voters'): raises ValueError when the weights do not sum to 1.0
validate_voter_weights(voters) == ~WeightSumOff(voters)

\* GovernanceVoteRequest: voters min_items=1, vectors min_items=1, each item
\* valid, and the voters validator.  (max_items and the string lengths are
\* not reached by the modelled requests.)
GovernanceVoteRequestValid(req) ==
    /\ Len(req.voters) >= 1
    /\ \A i \in DOMAIN req.voters : VoterWeightValid(req.voters[i])
    /\ validate_voter_weights(req.voters)
    /\ Len(req.vectors) >= 1
    /\ \A i \in DOMAIN req.vectors : VotingVectorValid(req.vectors[i])

\* @validator('budget_tier')
validate_budget_tier(tier) == tier \in {"low", "medium", "high"}

\* RemediationRequest: pollution_description min_length=10, budget_tier validator
RemediationRequestValid(req) ==
    /\ req.description_len >= 10
    /\ validate_budget_tier(req.budget_tier)

----------------------------------------------------------------------------
(***************************************************************************)
(* services/governance_service.py                                          *)
(***************************************************************************)
Scores(vectors) == [i \in DOMAIN vectors |-> vectors[i].score]

\* v.weight or 1.0: None and 0.0 are both falsy
WeightOrOne(v) ==
    IF v.weight = <<>> \/ v.weight[1] = 0 THEN 100 ELSE v.weight[1]

\* The aggregate score as the fraction num/den of hundredths (den > 0).
\* mutant: the denominator sums the raw weights, a missing weight counting 0
_calculate_aggregate_scoreMutant(vectors) ==
    IF vectors = <<>> THEN [num |-> 0, den |-> 1]
    ELSE
      LET has_weights == \E i \in DOMAIN vectors : vectors[i].weight # <<>>
      IN  IF has_weights
          THEN LET total_weight ==
                       SumSeq([i \in DOMAIN vectors |->
                                  IF vectors[i].weight = <<>> THEN 0
                                  ELSE vectors[i].weight[1]])
                   weighted_sum ==
                       SumSeq([i \in DOMAIN vectors |->
                                  vectors[i].score * WeightOrOne(vectors[i])])
               IN  IF total_weight > 0
                   THEN [num |-> weighted_sum, den |-> total_weight]
                   ELSE [num |-> 0, den |-> 1]
          ELSE [num |-> SumSeq(Scores(vectors)), den |-> Len(vectors)]

_calculate_aggregate_score(vectors) ==
    IF vectors = <<>> THEN [num |-> 0, den |-> 1]
    ELSE
      LET has_weights == \E i \in DOMAIN vectors : vectors[i].weight # <<>>
      IN  IF has_weights
          THEN LET total_weight ==
                       SumSeq([i \in DOMAIN vectors |-> WeightOrOne(vectors[i])])
                   weighted_sum ==
                       SumSeq([i \in DOMAIN vectors |->
                                  vectors[i].score * WeightOrOne(vectors[i])])
               IN  IF total_weight > 0
                   THEN [num |-> weighted_sum, den |-> total_weight]
                   ELSE [num |-> 0, den |-> 1]
          ELSE [num |-> SumSeq(Scores(vectors)), den |-> Len(vectors)]

\* statistics.stdev: the sample standard deviation (divisor n - 1), n >= 2.
\* variance = (n*Sum(x^2) - Sum(x)^2) / (n*(n-1)), in hundredths squared;
\* VarianceMicro is floor(10^6 * variance) and stdev its root: floor(1000*std).
\* mutant: the population variance (divisor n), as statistics.pstdev
VarianceMicroMutant(scores) ==
    LET n  == Len(scores)
        s1 == SumSeq(scores)
        s2 == SumSeq([i \in DOMAIN scores |-> scores[i] * scores[i]])
    IN  (100 * (n * s2 - s1 * s1)) \div (n * n)

VarianceMicro(scores) ==
    LET n  == Len(scores)
        s1 == SumSeq(scores)
        s2 == SumSeq([i \in DOMAIN scores |-> scores[i] * scores[i]])
    IN  (100 * (n * s2 - s1 * s1)) \div (n * (n - 1))

stdev(scores) == ISqrt(VarianceMicro(scores))

\* mutant: the standard deviation is not halved, 1 - std
RoundedConsensusMutant(scores) ==
    IF VarianceMicro(scores) > 1000000 THEN 0
    ELSE 1000 - stdev(scores)

\* round(max(0, 1 - std/2), 3) in thousandths: 1000 - round(500*std), and
\* round(500*std) = floor((floor(1000*std) + 1) / 2).
RoundedConsensus(scores) ==
    IF VarianceMicro(scores) > 4000000 THEN 0
    ELSE 1000 - ((stdev(scores) + 1) \div 2)

\* Consensus in thousandths.  mean(scores) == 0 holds iff the scores sum to
\* zero.  The bare except (return 0.5) guards stdev, which raises only for
\* fewer than two points: it cannot be taken after the len(vectors) < 2 return.
\* mutant: no short-circuit for a mean of zero
_calculate_consensusMutant(vectors, voters) ==
    IF Len(vectors) < 2 THEN 1000
    ELSE RoundedConsensus(Scores(vectors))

\* mutant: the agreement is taken among the voters: a single voter agrees
\* with itself, several voters are given the spread of the scores
_calculate_consensusVotersMutant(vectors, voters) ==
    IF Len(vectors) < 2 \/ Len(voters) < 2 THEN 1000
    ELSE LET scores == Scores(vectors)
         IN  IF SumSeq(scores) = 0 THEN 1000
             ELSE RoundedConsensus(scores)

\* mutant: a mean of zero counts as no consensus
_calculate_consensusZeroMutant(vectors, voters) ==
    IF Len(vectors) < 2 THEN 1000
    ELSE LET scores == Scores(vectors)
         IN  IF SumSeq(scores) = 0 THEN 0
             ELSE RoundedConsensus(scores)

_calculate_consensus(vectors, voters) ==
    IF Len(vectors) < 2 THEN 1000
    ELSE LET scores == Scores(vectors)
         IN  IF SumSeq(scores) = 0 THEN 1000
             ELSE RoundedConsensus(scores)

\* The return statement _calculate_consensus leaves by.  stdev is called
\* only under 'if len(scores) > 1' and raises only for fewer than two
\* points; the clamp max(0, .) takes effect when std exceeds 2.
ConsensusBranch(vectors) ==
    LET scores == Scores(vectors)
    IN  IF Len(vectors) < 2 THEN "single vector"
        ELSE IF SumSeq(scores) = 0 THEN "zero mean"
        ELSE IF Len(scores) > 1 /\ Len(scores) < 2 THEN "except"
        ELSE IF VarianceMicro(scores) > 4000000 THEN "clamped"
        ELSE "formula"

\* aggregate_score and consensus against the thresholds 0.6, -0.4, 0.6, 0.3
\* mutant: the approval threshold on the score is inclusive
_generate_recommendationMutant(aggregate_score, consensus) ==
    IF aggregate_score.num >= 60 * aggregate_score.den /\ consensus > 600
    THEN "APPROVE"
    ELSE IF aggregate_score.num < -40 * aggregate_score.den \/ consensus < 300
    THEN "REJECT"
    ELSE "NEEDS_REVIEW"

_generate_recommendation(aggregate_score, consensus) ==
    IF aggregate_score.num > 60 * aggregate_score.den /\ consensus > 600
    THEN "APPROVE"
    ELSE IF aggregate_score.num < -40 * aggregate_score.den \/ consensus < 300
    THEN "REJECT"
    ELSE "NEEDS_REVIEW"

\* max(vectors, key=score) / min(vectors, key=score): the first vector in
\* input order that attains the extreme
\* mutant: the last vector that attains the maximum
FirstMaxIndexMutant(vectors) ==
    CHOOSE i \in DOMAIN vectors :
        /\ \A j \in DOMAIN vectors : vectors[j].score <= vectors[i].score
        /\ \A j \in (i + 1)..Len(vectors) : vectors[j].score < vectors[i].score

FirstMaxIndex(vectors) ==
    CHOOSE i \in DOMAIN vectors :
        /\ \A j \in DOMAIN vectors : vectors[j].score <= vectors[i].score
        /\ \A j \in 1..(i - 1) : vectors[j].score < vectors[i].score

FirstMinIndex(vectors) ==
    CHOOSE i \in DOMAIN vectors :
        /\ \A j \in DOMAIN vectors : vectors[j].score >= vectors[i].score
        /\ \A j \in 1..(i - 1) : vectors[j].score > vectors[i].score

\* The parts of the explanation text that depend on the input: the names of
\* the strongest and weakest vectors (<<>> for an empty list) and the band.
_generate_explanation(policy_id, vectors, aggregate_score, consensus) ==
    [strongest |-> IF vectors = <<>> THEN <<>>
                   ELSE <<vectors[FirstMaxIndex(vectors)].name>>,
     weakest   |-> IF vectors = <<>> THEN <<>>
                   ELSE <<vectors[FirstMinIndex(vectors)].name>>,
     band      |-> IF aggregate_score.num > 70 * aggregate_score.den
                       THEN "strong alignment"
                   ELSE IF aggregate_score.num > 30 * aggregate_score.den
                       THEN "moderate support"
                   ELSE IF aggregate_score.num > -30 * aggregate_score.den
                       THEN "mixed feedback"
                   ELSE "significant concerns"]

\* min(0.95, 0.5 + consensus * 0.45), in millionths
\* mutant: the cap is missing and the slope reaches 1.0
ConfidenceMutant(voter_consensus) ==
    500000 + voter_consensus * 500

Confidence(voter_consensus) ==
    LET c == 500000 + voter_consensus * 450
    IN  IF c < 950000 THEN c ELSE 950000

\* {v.name: v.score for v in vectors}: a later vector of the same name
\* overwrites an earlier one
vector_breakdown(vectors) ==
    LET names == {vectors[i].name : i \in DOMAIN vectors}
        last(n) == CHOOSE i \in DOMAIN vectors :
                       /\ vectors[i].name = n
                       /\ \A j \in DOMAIN vectors :
                              vectors[j].name = n => j <= i
    IN  [n \in names |-> vectors[last(n)].score]

\* GovernanceService.aggregate_votes: the GovernanceVoteResponse (timestamp
\* left out).  It raises for no input.
aggregate_votes(policy_id, voters, vectors) ==
    LET aggregate_score == _calculate_aggregate_score(vectors)
        voter_consensus == _calculate_consensus(vectors, voters)
    IN  [policy_id        |-> policy_id,
         aggregate_score  |-> aggregate_score,
         vector_breakdown |-> vector_breakdown(vectors),
         voter_consensus  |-> voter_consensus,
         recommendation   |-> _generate_recommendation(aggregate_score, voter_consensus),
         explanation      |-> _generate_explanation(policy_id, vectors,
                                                    aggregate_score, voter_consensus),
         confidence       |-> Confidence(voter_consensus)]

\* GovernanceVoteResponse field constraints, checked when the response
\* object is built: aggregate_score in [-1, 1], voter_consensus and
\* confidence in [0, 1], recommendation one of the three words
GovernanceVoteResponseValid(r) ==
    /\ -100 * r.aggregate_score.den <= r.aggregate_score.num
    /\ r.aggregate_score.num <= 100 * r.aggregate_score.den
    /\ 0 <= r.voter_consensus /\ r.voter_consensus <= 1000
    /\ 0 <= r.confidence /\ r.confidence <= 1000000
    /\ r.recommendation \in {"APPROVE", "REJECT", "NEEDS_REVIEW"}
----------------------------------------------------------------------------
(***************************************************************************)
(* services/remediation_service.py                                         *)
(*                                                                         *)
(* A strategy is [agent_type, effectiveness (hundredths), timeline_days,   *)
(* cost_estimate]; name, risks, explanation and steps are fixed texts.     *)
(***************************************************************************)
_fungal_remediation(budget_tier) ==
    [agent_type    |-> "fungal_remediation",
     effectiveness |-> IF budget_tier = "low" THEN 75
                       ELSE IF budget_tier = "medium" THEN 85 ELSE 92,
     timeline_days |-> 90,
     cost_estimate |-> IF budget_tier = "low" THEN 30000
                       ELSE IF budget_tier = "medium" THEN 50000 ELSE 80000]

_bacterial_remediation(budget_tier) ==
    [agent_type    |-> "bacterial_consortium",
     effectiveness |-> IF budget_tier = "low" THEN 70
                       ELSE IF budget_tier = "medium" THEN 78 ELSE 88,
     timeline_days |-> 60,
     cost_estimate |-> IF budget_tier = "low" THEN 25000
                       ELSE IF budget_tier = "medium" THEN 40000 ELSE 65000]

_crispr_remediation(budget_tier) ==
    [agent_type    |-> "crispr_remediation",
     effectiveness |-> 95,
     timeline_days |-> 120,
     cost_estimate |-> 120000]

_hybrid_remediation(budget_tier) ==
    [agent_type    |-> "hybrid_remediation",
     effectiveness |-> IF budget_tier = "low" THEN 82
                       ELSE IF budget_tier = "medium" THEN 90 ELSE 97,
     timeline_days |-> 150,
     cost_estimate |-> IF budget_tier = "low" THEN 45000
                       ELSE IF budget_tier = "medium" THEN 75000 ELSE 130000]

\* the catalog, in declaration order; CRISPR only for 'medium' and 'high'
\* mutant: CRISPR only for 'high'
_generate_agent_strategiesMutant(budget_tier) ==
    <<_fungal_remediation(budget_tier), _bacterial_remediation(budget_tier)>>
    \o (IF budget_tier \in {"high"}
        THEN <<_crispr_remediation(budget_tier)>> ELSE <<>>)
    \o <<_hybrid_remediation(budget_tier)>>

_generate_agent_strategies(budget_tier) ==
    <<_fungal_remediation(budget_tier), _bacterial_remediation(budget_tier)>>
    \o (IF budget_tier \in {"medium", "high"}
        THEN <<_crispr_remediation(budget_tier)>> ELSE <<>>)
    \o <<_hybrid_remediation(budget_tier)>>

\* sorted(strategies, key=effectiveness, reverse=True): stable, so x goes
\* behind every element whose effectiveness is not smaller
InsertByEffectiveness(sorted, x) ==
    LET ahead == {i \in DOMAIN sorted : sorted[i].effectiveness >= x.effectiveness}
        k     == IF ahead = {} THEN 0
                 ELSE CHOOSE i \in ahead : \A j \in ahead : j <= i
    IN  SubSeq(sorted, 1, k) \o <<x>> \o SubSeq(sorted, k + 1, Len(sorted))

\* mutant: the catalog is returned in declaration order, unsorted
SortedByEffectivenessMutant(strategies) == strategies

RECURSIVE SortedByEffectiveness(_)
SortedByEffectiveness(strategies) ==
    IF strategies = <<>> THEN <<>>
    ELSE InsertByEffectiveness(
             SortedByEffectiveness(SubSeq(strategies, 1, Len(strategies) - 1)),
             strategies[Len(strategies)])

\* mutant: recommended_order holds each returned strategy's index in the
\* catalog, before sorting
generate_strategiesOrderMutant(budget_tier) ==
    LET strategies == _generate_agent_strategies(budget_tier)
        strategies_sorted == SortedByEffectiveness(strategies)
    IN  [strategies          |-> strategies_sorted,
         recommended_order   |->
             [i \in DOMAIN strategies_sorted |->
                 (CHOOSE k \in DOMAIN strategies :
                      strategies[k] = strategies_sorted[i]) - 1],
         total_timeline_days |->
             SumSeq([i \in DOMAIN strategies_sorted |->
                        strategies_sorted[i].timeline_days]),
         combined_cost       |->
             SumSeq([i \in DOMAIN strategies_sorted |->
                        strategies_sorted[i].cost_estimate])]

\* mutant: the strategies run in parallel, the timeline is the longest one
generate_strategiesTotalsMutant(budget_tier) ==
    LET strategies_sorted ==
            SortedByEffectiveness(_generate_agent_strategies(budget_tier))
    IN  [strategies          |-> strategies_sorted,
         recommended_order   |-> [i \in DOMAIN strategies_sorted |-> i - 1],
         total_timeline_days |->
             CHOOSE d \in {strategies_sorted[i].timeline_days :
                              i \in DOMAIN strategies_sorted} :
                 \A i \in DOMAIN strategies_sorted :
                     strategies_sorted[i].timeline_days <= d,
         combined_cost       |->
             SumSeq([i \in DOMAIN strategies_sorted |->
                        strategies_sorted[i].cost_estimate])]

\* RemediationService.generate_strategies: the RemediationResponse
\* (timestamp left out)
generate_strategies(budget_tier) ==
    LET strategies_sorted ==
            SortedByEffectiveness(_generate_agent_strategies(budget_tier))
    IN  [strategies          |-> strategies_sorted,
         recommended_order   |-> [i \in DOMAIN strategies_sorted |-> i - 1],
         total_timeline_days |->
             SumSeq([i \in DOMAIN strategies_sorted |->
                        strategies_sorted[i].timeline_days]),
         combined_cost       |->
             SumSeq([i \in DOMAIN strategies_sorted |->
                        strategies_sorted[i].cost_estimate])]

----------------------------------------------------------------------------
(***************************************************************************)
(* agents/governance_agent.py: GovernanceAgent.  A stakeholder vote is a    *)
(* dict; a key it lacks reads as 0.5 (vote.get(key, 0.5)).  Scores are in   *)
(* hundredths, a mean is the fraction [num, den] of its sum and count.      *)
(***************************************************************************)
\* GovernanceAgent.VECTORS, in declaration order
VECTORS == <<"environment", "health", "economy", "speed">>

\* v.get(key, 0.5) for every vote of the list
VoteScores(votes, key) ==
    [i \in DOMAIN votes |->
        IF votes[i][key] = <<>> THEN 50 ELSE votes[i][key][1]]

\* the keys of the mapping calculate_consensus returns, in insertion order
ConsensusKeys(votes) ==
    IF votes = <<>> THEN VECTORS ELSE VECTORS \o <<"overall_consensus">>

\* GovernanceAgent.calculate_consensus: 'if not votes' returns 0.5 for the
\* four vectors and nothing else; otherwise the four means and the mean of
\* all scores under overall_consensus
calculate_consensus(votes) ==
    IF votes = <<>>
    THEN [key \in {VECTORS[i] : i \in DOMAIN VECTORS} |-> [num |-> 50, den |-> 1]]
    ELSE [key \in {VECTORS[i] : i \in DOMAIN VECTORS} \cup {"overall_consensus"} |->
            IF key = "overall_consensus"
            THEN [num |-> SumSeq([i \in DOMAIN VECTORS |->
                                     SumSeq(VoteScores(votes, VECTORS[i]))]),
                  den |-> Len(VECTORS) * Len(votes)]
            ELSE [num |-> SumSeq(VoteScores(votes, key)), den |-> Len(votes)]]

\* key=lambda x: x[1] if x[0] != "overall_consensus" else 1
ConcernKey(consensus, key) ==
    IF key # "overall_consensus" THEN consensus[key] ELSE [num |-> 100, den |-> 1]

\* min(consensus.items(), key=...)[0]: the first key, in insertion order,
\* whose value is not above any other
key_concern(consensus, keys) ==
    LET less(a, b) == a.num * b.den < b.num * a.den
        i == CHOOSE i \in DOMAIN keys :
                 /\ \A j \in DOMAIN keys :
                        ~less(ConcernKey(consensus, keys[j]),
                              ConcernKey(consensus, keys[i]))
                 /\ \A j \in 1..(i - 1) :
                        less(ConcernKey(consensus, keys[i]),
                             ConcernKey(consensus, keys[j]))
    IN  keys[i]

\* GovernanceAgent.recommend_policy on a mapping with the given key order:
\* consensus["overall_consensus"] raises KeyError when the key is missing
recommend_policy(consensus, keys) ==
    IF "overall_consensus" \notin DOMAIN consensus
    THEN [raised |-> <<"KeyError">>, value |-> <<>>]
    ELSE LET overall == consensus["overall_consensus"]
         IN  [raised |-> <<>>,
              value  |-> <<[recommendation |->
                               IF 100 * overall.num >= 75 * 100 * overall.den
                                   THEN "STRONGLY RECOMMENDED"
                               ELSE IF 100 * overall.num >= 65 * 100 * overall.den
                                   THEN "RECOMMENDED"
                               ELSE IF 100 * overall.num >= 50 * 100 * overall.den
                                   THEN "REQUIRES REVISION"
                               ELSE "NOT RECOMMENDED",
                            consensus_scores |-> consensus,
                            key_concern |-> key_concern(consensus, keys)]>>]

----------------------------------------------------------------------------
(***************************************************************************)
(* main.py: the two POST handlers.                                         *)
(*                                                                         *)
(* Each handler body is one try block whose except clause catches          *)
(* Exception and raises HTTPException(500).  HTTPException is itself an    *)
(* Exception: one raised inside the try block is caught by that clause.    *)
(***************************************************************************)
NoResponse == [status |-> 0, body |-> <<>>]
NoRequest  == [path |-> "none"]
NoCall     == [fn |-> "none"]
NoResult   == [raised |-> <<>>, value |-> <<>>]

\* a slot with no invocation in it: no arguments, every local unassigned
NoFrame ==
    [fn |-> "none", pc |-> "none",
     policy_id |-> "", voters |-> <<>>, vectors |-> <<>>, budget_tier |-> "",
     aggregate_score |-> <<>>, vector_breakdown |-> <<>>,
     voter_consensus |-> <<>>, recommendation |-> <<>>, explanation |-> <<>>,
     strategies |-> <<>>, strategies_sorted |-> <<>>,
     value |-> <<>>]

Slots == 1..MaxInvocations

\* the outcome of a direct call that returned x (a record) without raising
Returned(x) == [raised |-> <<>>, value |-> <<x>>]

\* the status of the HTTPException the try block of submit_governance_vote
\* raises itself, << >> if it raises none
VoteRaisedInTry(req) ==
    IF WeightSumOff(req.voters) THEN <<400>> ELSE <<>>

\* except Exception as e: raise HTTPException(status_code=500, ...)
ExceptClause(raised) == 500

submit_governance_vote(req) ==
    LET raised == VoteRaisedInTry(req)
        body   == aggregate_votes(req.policy_id, req.voters, req.vectors)
    IN  IF raised # <<>>
            THEN [status |-> ExceptClause(raised), body |-> <<>>]
        ELSE IF ~GovernanceVoteResponseValid(body)
            \* the response object fails its own validation inside the try
            THEN [status |-> 500, body |-> <<>>]
        ELSE [status |-> 200, body |-> <<body>>]

\* the status of the HTTPException the try block of create_remediation_plan
\* raises itself, << >> if it raises none
PlanRaisedInTry(req) ==
    IF req.description_len = 0 \/ req.description_len < 10 THEN <<400>> ELSE <<>>

create_remediation_plan(req) ==
    LET raised == PlanRaisedInTry(req)
    IN  IF raised # <<>>
            THEN [status |-> ExceptClause(raised), body |-> <<>>]
        ELSE [status |-> 200, body |-> <<generate_strategies(req.budget_tier)>>]

\* A request body that fails its schema never enters the handler: FastAPI
\* answers it itself (422 Unprocessable Entity; main.py installs no
\* exception handler that would change that).
RequestValidationError == [status |-> 422, body |-> <<>>]

----------------------------------------------------------------------------
(***************************************************************************)
(* Inputs.                                                                 *)
(***************************************************************************)
VectorNames == <<"environmental_impact", "health_benefit", "economic_cost",
                 "speed", "equity">>

\* vector lists of the direct calls: distinct names, any score and weight
NamedVectors(sw) ==
    [i \in DOMAIN sw |->
        [name |-> VectorNames[i], score |-> sw[i][1], weight |-> sw[i][2]]]

VectorLists ==
    {NamedVectors(sw) : sw \in SeqsUpTo(ScoreGrid \X VectorWeightGrid, MaxVectors)}

HttpScoreGrid == {-100, 85, 90}

HttpVectorLists ==
    {NamedVectors(sw) : sw \in SeqsUpTo(HttpScoreGrid \X {<<>>}, MaxHttpVectors)}

\* a request may name the same vector twice: no schema compares the names
RepeatedNameVectorLists ==
    {<<[name |-> VectorNames[1], score |-> 90, weight |-> <<>>],
       [name |-> VectorNames[1], score |-> -100, weight |-> <<>>]>>}

VoterLists == SeqsUpTo(VoterWeightGrid, MaxVoters)

\* stakeholder votes given to the agent: scores in [0, 1], a key may be absent
StakeholderVotes ==
    {[environment |-> <<100>>, health |-> <<100>>, economy |-> <<100>>, speed |-> <<100>>],
     [environment |-> <<50>>, health |-> <<0>>, economy |-> <<0>>, speed |-> <<75>>],
     [environment |-> <<90>>, health |-> <<>>, economy |-> <<100>>, speed |-> <<40>>],
     [environment |-> <<>>, health |-> <<>>, economy |-> <<>>, speed |-> <<>>]}

StakeholderVoteLists == SeqsUpTo(StakeholderVotes, MaxVotes)

\* voter lists of the direct service calls (the service never reads them)
ServiceVoterLists == {<<100>>, <<50, 50>>}

VoteRequests ==
    {[path |-> "/v1/governance/vote", policy_id |-> "city-eco-001",
      voters |-> vo, vectors |-> ve] :
        vo \in VoterLists, ve \in HttpVectorLists \cup RepeatedNameVectorLists}

PlanRequests(tiers) ==
    {[path |-> "/v1/remediation/plan", description_len |-> n, budget_tier |-> t] :
        n \in DescriptionLengths, t \in tiers}

----------------------------------------------------------------------------
(***************************************************************************)
(* Spec: the HTTP server.  A request is received and validated against its *)
(* schema; a valid one enters the handler, whose answer is delivered.      *)
(***************************************************************************)
Init ==
    /\ pc = "idle"
    /\ request = NoRequest
    /\ response = NoResponse
    /\ call = NoCall
    /\ result = NoResult
    /\ frames = [k \in Slots |-> NoFrame]

PostGovernanceVote ==
    /\ pc = "idle"
    /\ \E req \in VoteRequests :
        /\ request' = req
        /\ IF GovernanceVoteRequestValid(req)
           THEN pc' = "submit_governance_vote" /\ response' = NoResponse
           ELSE pc' = "done" /\ response' = RequestValidationError
    /\ UNCHANGED <<call, result, frames>>

SubmitGovernanceVote ==
    /\ pc = "submit_governance_vote"
    /\ response' = submit_governance_vote(request)
    /\ pc' = "done"
    /\ UNCHANGED <<request, call, result, frames>>

PostRemediationPlan ==
    /\ pc = "idle"
    /\ \E req \in PlanRequests(BudgetTiers \cup {OtherTier}) :
        /\ request' = req
        /\ IF RemediationRequestValid(req)
           THEN pc' = "create_remediation_plan" /\ response' = NoResponse
           ELSE pc' = "done" /\ response' = RequestValidationError
    /\ UNCHANGED <<call, result, frames>>

CreateRemediationPlan ==
    /\ pc = "create_remediation_plan"
    /\ response' = create_remediation_plan(request)
    /\ pc' = "done"
    /\ UNCHANGED <<request, call, result, frames>>

\* the response has been sent; the server waits for the next request
Delivered ==
    /\ pc = "done"
    /\ pc' = "idle"
    /\ request' = NoRequest
    /\ response' = NoResponse
    /\ UNCHANGED <<call, result, frames>>

Next ==
    \/ PostGovernanceVote
    \/ SubmitGovernanceVote
    \/ PostRemediationPlan
    \/ CreateRemediationPlan
    \/ Delivered

Spec == Init /\ [][Next]_vars

----------------------------------------------------------------------------
(***************************************************************************)
(* SpecService: the service functions and the handlers called directly,    *)
(* as a unit test or another caller inside the process calls them, with    *)
(* arguments no schema has filtered.                                       *)
(***************************************************************************)
CallAggregateVotes ==
    /\ pc = "idle"
    /\ \E vectors \in VectorLists, voters \in ServiceVoterLists :
        /\ call' = [fn |-> "aggregate_votes", policy_id |-> "city-eco-001",
                    voters |-> voters, vectors |-> vectors]
        /\ result' = Returned(aggregate_votes("city-eco-001", voters, vectors))
    /\ pc' = "returned"
    /\ UNCHANGED <<request, response, frames>>

CallGenerateRecommendation ==
    /\ pc = "idle"
    /\ \E a \in AggregateGrid, c \in ConsensusGrid :
        /\ call' = [fn |-> "_generate_recommendation", aggregate_score |-> a,
                    consensus |-> c]
        /\ result' = Returned([recommendation |->
                                   _generate_recommendation([num |-> a, den |-> 10], c)])
    /\ pc' = "returned"
    /\ UNCHANGED <<request, response, frames>>

CallGenerateStrategies ==
    /\ pc = "idle"
    /\ \E tier \in BudgetTiers \cup {OtherTier} :
        /\ call' = [fn |-> "generate_strategies", budget_tier |-> tier]
        /\ result' = Returned(generate_strategies(tier))
    /\ pc' = "returned"
    /\ UNCHANGED <<request, response, frames>>

CallSubmitGovernanceVote ==
    /\ pc = "idle"
    /\ \E req \in VoteRequests :
        /\ call' = [fn |-> "submit_governance_vote", request |-> req]
        /\ result' = Returned(submit_governance_vote(req))
    /\ pc' = "returned"
    /\ UNCHANGED <<request, response, frames>>

CallCreateRemediationPlan ==
    /\ pc = "idle"
    /\ \E req \in PlanRequests(BudgetTiers \cup {OtherTier}) :
        /\ call' = [fn |-> "create_remediation_plan", request |-> req]
        /\ result' = Returned(create_remediation_plan(req))
    /\ pc' = "returned"
    /\ UNCHANGED <<request, response, frames>>

\* recommend_policy applied to the result of calculate_consensus
CallRecommendPolicy ==
    /\ pc = "idle"
    /\ \E votes \in StakeholderVoteLists :
        /\ call' = [fn |-> "recommend_policy", votes |-> votes]
        /\ result' = recommend_policy(calculate_consensus(votes),
                                     ConsensusKeys(votes))
    /\ pc' = "returned"
    /\ UNCHANGED <<request, response, frames>>

Return ==
    /\ pc = "returned"
    /\ pc' = "idle"
    /\ call' = NoCall
    /\ result' = NoResult
    /\ UNCHANGED <<request, response, frames>>

NextService ==
    \/ CallAggregateVotes
    \/ CallGenerateRecommendation
    \/ CallGenerateStrategies
    \/ CallSubmitGovernanceVote
    \/ CallCreateRemediationPlan
    \/ CallRecommendPolicy
    \/ Return

SpecService == Init /\ [][NextService]_vars

----------------------------------------------------------------------------
(***************************************************************************)
(* SpecConcurrent: several invocations of aggregate_votes and              *)
(* generate_strategies in flight at once on the two module-level service   *)
(* instances of main.py, their statements interleaved in any order.  Each  *)
(* invocation has a frame of its own holding its arguments and its local   *)
(* variables; the service instances have no attributes (the only __init__  *)
(* is 'pass') and the functions assign to no global.  A step executes one  *)
(* statement of one invocation.                                            *)
(***************************************************************************)
\* vector lists of the concurrent invocations: 0.9 and 0.85 unweighted
\* (APPROVE), -1.0 and 1.0 weighted 0.0 and 0.25 (REJECT), none
ConcurrentVectorLists ==
    {NamedVectors(<< <<90, <<>>>>, <<85, <<>>>> >>),
     NamedVectors(<< <<-100, <<0>>>>, <<100, <<25>>>> >>),
     <<>>}

\* mutant: a local variable is an attribute of the shared service instance:
\* once the invocation in the first slot has assigned it, every invocation
\* reads that value
LocalMutant(fs, k, name) ==
    IF fs[1][name] # <<>> THEN fs[1][name] ELSE fs[k][name]

\* the value of invocation k's local variable
Local(fs, k, name) == fs[k][name]

\* invocation k executes a statement: its frame changes, no other does
Step(k, frame) ==
    /\ frames' = [frames EXCEPT ![k] = frame]
    /\ UNCHANGED <<pc, request, response, call, result>>

InvokeAggregateVotes(k) ==
    /\ frames[k].pc = "none"
    /\ \E vectors \in ConcurrentVectorLists, voters \in ServiceVoterLists :
        Step(k, [NoFrame EXCEPT !.fn = "aggregate_votes",
                                !.pc = "aggregate_score",
                                !.policy_id = "city-eco-001",
                                !.voters = voters,
                                !.vectors = vectors])

CalculateAggregateScore(k) ==
    /\ frames[k].pc = "aggregate_score"
    /\ Step(k, [frames[k] EXCEPT
                   !.aggregate_score =
                       <<_calculate_aggregate_score(frames[k].vectors)>>,
                   !.pc = "vector_breakdown"])

BuildVectorBreakdown(k) ==
    /\ frames[k].pc = "vector_breakdown"
    /\ Step(k, [frames[k] EXCEPT
                   !.vector_breakdown = <<vector_breakdown(frames[k].vectors)>>,
                   !.pc = "voter_consensus"])

CalculateConsensus(k) ==
    /\ frames[k].pc = "voter_consensus"
    /\ Step(k, [frames[k] EXCEPT
                   !.voter_consensus =
                       <<_calculate_consensus(frames[k].vectors, frames[k].voters)>>,
                   !.pc = "recommendation"])

GenerateRecommendation(k) ==
    /\ frames[k].pc = "recommendation"
    /\ Step(k, [frames[k] EXCEPT
                   !.recommendation =
                       <<_generate_recommendation(
                             Local(frames, k, "aggregate_score")[1],
                             Local(frames, k, "voter_consensus")[1])>>,
                   !.pc = "explanation"])

GenerateExplanation(k) ==
    /\ frames[k].pc = "explanation"
    /\ Step(k, [frames[k] EXCEPT
                   !.explanation =
                       <<_generate_explanation(
                             frames[k].policy_id, frames[k].vectors,
                             Local(frames, k, "aggregate_score")[1],
                             Local(frames, k, "voter_consensus")[1])>>,
                   !.pc = "return"])

ReturnVoteResponse(k) ==
    /\ frames[k].pc = "return"
    /\ frames[k].fn = "aggregate_votes"
    /\ Step(k, [frames[k] EXCEPT
                   !.value =
                       <<[policy_id        |-> frames[k].policy_id,
                          aggregate_score  |-> Local(frames, k, "aggregate_score")[1],
                          vector_breakdown |-> Local(frames, k, "vector_breakdown")[1],
                          voter_consensus  |-> Local(frames, k, "voter_consensus")[1],
                          recommendation   |-> Local(frames, k, "recommendation")[1],
                          explanation      |-> Local(frames, k, "explanation")[1],
                          confidence       |->
                              Confidence(Local(frames, k, "voter_consensus")[1])]>>,
                   !.pc = "done"])

InvokeGenerateStrategies(k) ==
    /\ frames[k].pc = "none"
    /\ \E tier \in BudgetTiers \cup {OtherTier} :
        Step(k, [NoFrame EXCEPT !.fn = "generate_strategies",
                                !.pc = "fungal",
                                !.budget_tier = tier])

AppendFungal(k) ==
    /\ frames[k].pc = "fungal"
    /\ Step(k, [frames[k] EXCEPT
                   !.strategies = Append(Local(frames, k, "strategies"),
                                         _fungal_remediation(frames[k].budget_tier)),
                   !.pc = "bacterial"])

AppendBacterial(k) ==
    /\ frames[k].pc = "bacterial"
    /\ Step(k, [frames[k] EXCEPT
                   !.strategies = Append(Local(frames, k, "strategies"),
                                         _bacterial_remediation(frames[k].budget_tier)),
                   !.pc = "crispr"])

\* if budget_tier in ['medium', 'high']: append, else fall through
AppendCrispr(k) ==
    /\ frames[k].pc = "crispr"
    /\ Step(k, [frames[k] EXCEPT
                   !.strategies =
                       IF frames[k].budget_tier \in {"medium", "high"}
                       THEN Append(Local(frames, k, "strategies"),
                                   _crispr_remediation(frames[k].budget_tier))
                       ELSE Local(frames, k, "strategies"),
                   !.pc = "hybrid"])

AppendHybrid(k) ==
    /\ frames[k].pc = "hybrid"
    /\ Step(k, [frames[k] EXCEPT
                   !.strategies = Append(Local(frames, k, "strategies"),
                                         _hybrid_remediation(frames[k].budget_tier)),
                   !.pc = "sorted"])

SortStrategies(k) ==
    /\ frames[k].pc = "sorted"
    /\ Step(k, [frames[k] EXCEPT
                   !.strategies_sorted =
                       SortedByEffectiveness(Local(frames, k, "strategies")),
                   !.pc = "return"])

\* recommended_order, the two totals and the response, from strategies_sorted
ReturnRemediationResponse(k) ==
    /\ frames[k].pc = "return"
    /\ frames[k].fn = "generate_strategies"
    /\ LET strategies_sorted == Local(frames, k, "strategies_sorted")
       IN  Step(k, [frames[k] EXCEPT
                       !.value =
                           <<[strategies          |-> strategies_sorted,
                              recommended_order   |->
                                  [i \in DOMAIN strategies_sorted |-> i - 1],
                              total_timeline_days |->
                                  SumSeq([i \in DOMAIN strategies_sorted |->
                                             strategies_sorted[i].timeline_days]),
                              combined_cost       |->
                                  SumSeq([i \in DOMAIN strategies_sorted |->
                                             strategies_sorted[i].cost_estimate])]>>,
                       !.pc = "done"])

\* the caller has taken the result; the slot is free for the next invocation
Complete(k) ==
    /\ frames[k].pc = "done"
    /\ Step(k, NoFrame)

NextConcurrent ==
    \E k \in Slots :
        \/ InvokeAggregateVotes(k)
        \/ CalculateAggregateScore(k)
        \/ BuildVectorBreakdown(k)
        \/ CalculateConsensus(k)
        \/ GenerateRecommendation(k)
        \/ GenerateExplanation(k)
        \/ ReturnVoteResponse(k)
        \/ InvokeGenerateStrategies(k)
        \/ AppendFungal(k)
        \/ AppendBacterial(k)
        \/ AppendCrispr(k)
        \/ AppendHybrid(k)
        \/ SortStrategies(k)
        \/ ReturnRemediationResponse(k)
        \/ Complete(k)

SpecConcurrent == Init /\ [][NextConcurrent]_vars
----------------------------------------------------------------------------
(***************************************************************************)
(* Properties.                                                             *)
(***************************************************************************)
ReturnedFrom(fn) == pc = "returned" /\ call.fn = fn /\ result.raised = <<>>

Value == result.value[1]

\* C1: _generate_recommendation returns APPROVE iff aggregate_score > 0.6 and
\* consensus > 0.6, REJECT iff aggregate_score < -0.4 or consensus < 0.3, and
\* NEEDS_REVIEW in every other case, the boundary values included; the same
\* holds of the recommendation aggregate_votes derives from its own
\* aggregate_score and voter_consensus.
C1_Decision(numer, denom, consensus, rec) ==
    LET approve == numer > 600 * denom /\ consensus > 600
        reject  == numer < -400 * denom \/ consensus < 300
    IN  /\ (rec = "APPROVE") <=> approve
        /\ (rec = "REJECT") <=> reject
        /\ (rec = "NEEDS_REVIEW") <=> (~approve /\ ~reject)
        /\ ~(approve /\ reject)

C1_RecommendationThresholds ==
    /\ ReturnedFrom("_generate_recommendation") =>
           C1_Decision(call.aggregate_score, 1, call.consensus, Value.recommendation)
    /\ ReturnedFrom("aggregate_votes") =>
           C1_Decision(10 * Value.aggregate_score.num, Value.aggregate_score.den,
                       Value.voter_consensus, Value.recommendation)

\* the score exactly at 0.6 with full consensus is not approved
C1_Witness ==
    /\ ReturnedFrom("_generate_recommendation")
    /\ call.aggregate_score = 600 /\ call.consensus = 1000
    /\ Value.recommendation = "NEEDS_REVIEW"

\* C2: for a non-empty vector list with scores in [-1, 1] and weights null or
\* in [0, 1], the aggregate_score returned by aggregate_votes is in [-1, 1].
C2_AggregateScoreInRange ==
    (/\ ReturnedFrom("aggregate_votes")
     /\ call.vectors # <<>>
     /\ \A i \in DOMAIN call.vectors : VotingVectorValid(call.vectors[i]))
    => /\ Value.aggregate_score.den > 0
       /\ -100 * Value.aggregate_score.den <= Value.aggregate_score.num
       /\ Value.aggregate_score.num <= 100 * Value.aggregate_score.den

\* a null, a zero and a positive weight together, the score at the upper end
C2_Witness ==
    /\ ReturnedFrom("aggregate_votes")
    /\ Len(call.vectors) = 3
    /\ {call.vectors[i].weight : i \in DOMAIN call.vectors} = {<<>>, <<0>>, <<25>>}
    /\ Value.aggregate_score.num = 100 * Value.aggregate_score.den

\* C3: for every valid input of aggregate_votes, voter_consensus is in [0, 1]
\* and confidence is in [0, 0.95].
C3_ConsensusAndConfidenceInRange ==
    (/\ ReturnedFrom("aggregate_votes")
     /\ call.vectors # <<>>
     /\ \A i \in DOMAIN call.vectors : VotingVectorValid(call.vectors[i]))
    => /\ 0 <= Value.voter_consensus /\ Value.voter_consensus <= 1000
       /\ 0 <= Value.confidence /\ Value.confidence <= 950000

\* full consensus reaches the cap, a spread input stays below it
C3_Witness ==
    /\ ReturnedFrom("aggregate_votes")
    /\ Len(call.vectors) >= 2
    /\ Value.voter_consensus < 1000
    /\ Value.confidence < 950000
    /\ Value.confidence = 500000 + 450 * Value.voter_consensus

\* C4: when all vector scores of a request are equal, in particular when
\* there is one vector only, the consensus is 1.0 whatever the score is.
C4_EqualScoresFullConsensus ==
    (/\ ReturnedFrom("aggregate_votes")
     /\ call.vectors # <<>>
     /\ \A i, j \in DOMAIN call.vectors :
            call.vectors[i].score = call.vectors[j].score)
    => Value.voter_consensus = 1000

\* three vectors sharing a non-zero score
C4_Witness ==
    /\ ReturnedFrom("aggregate_votes")
    /\ Len(call.vectors) = 3
    /\ \A i \in DOMAIN call.vectors : call.vectors[i].score = 85
    /\ Value.voter_consensus = 1000

MaxSpread(vectors) ==
    Scores(vectors) \in {<<-100, 100>>, <<100, -100>>}

\* C5 as stated: the two-vector input with scores [-1.0, 1.0] yields
\* consensus 0.0.
C5_MaxSpreadZeroConsensus ==
    (ReturnedFrom("aggregate_votes") /\ MaxSpread(call.vectors))
    => Value.voter_consensus = 0

\* C5 amended: the two-vector input with scores [-1.0, 1.0] yields
\* consensus 1.0 (its mean is exactly 0).
C5_MaxSpreadFullConsensus ==
    (ReturnedFrom("aggregate_votes") /\ MaxSpread(call.vectors))
    => Value.voter_consensus = 1000

C5_Witness ==
    /\ ReturnedFrom("aggregate_votes")
    /\ Scores(call.vectors) = <<-100, 100>>
    /\ Value.voter_consensus = 1000

SpecExample(vectors) ==
    /\ Len(vectors) = 2
    /\ vectors[1] = [name |-> "environmental_impact", score |-> 90, weight |-> <<>>]
    /\ vectors[2] = [name |-> "health_benefit", score |-> 85, weight |-> <<>>]

\* C6: for environmental_impact = 0.9 and health_benefit = 0.85 without
\* weights, aggregate_votes returns aggregate_score 0.875, consensus 0.982
\* (the std of the two scores being about 0.0354) and APPROVE.
C6_SpecExample ==
    (ReturnedFrom("aggregate_votes") /\ SpecExample(call.vectors))
    => /\ 10 * Value.aggregate_score.num = 875 * Value.aggregate_score.den
       /\ stdev(Scores(call.vectors)) = 35
       /\ Value.voter_consensus = 982
       /\ Value.recommendation = "APPROVE"

C6_Witness ==
    /\ ReturnedFrom("aggregate_votes")
    /\ SpecExample(call.vectors)
    /\ Value.voter_consensus = 982

\* the sum of the weights as the decimal numbers the request states
WithinTolerance(voters) == Abs(SumSeq(voters) - 100) <= 1

\* C7 as stated: a vote request (valid in every other respect) is accepted
\* when its voter weights sum to 1.0 within 0.01 inclusive, so also at 0.99
\* and 1.01, and rejected otherwise; a rejected request carries no result.
C7_WeightSumTolerance ==
    (/\ pc = "done"
     /\ request.path = "/v1/governance/vote"
     /\ request.voters # <<>> /\ request.vectors # <<>>)
    => /\ (response.status = 200) <=> WithinTolerance(request.voters)
       /\ response.status # 200 => response.body = <<>>

\* C8 as stated: when a handler finds the invariant violated (voter weights
\* off, description too short) the caller gets status 400.
C8_InvariantViolationIs400 ==
    /\ (ReturnedFrom("submit_governance_vote")
        /\ VoteRaisedInTry(call.request) = <<400>>) => Value.status = 400
    /\ (ReturnedFrom("create_remediation_plan")
        /\ PlanRaisedInTry(call.request) = <<400>>) => Value.status = 400

\* the preconditions of the aggregation, on the stated decimals
AggregationPreconditions(voters, vectors) ==
    /\ voters # <<>>
    /\ \A i \in DOMAIN voters : VoterWeightValid(voters[i])
    /\ WithinTolerance(voters)
    /\ vectors # <<>>
    /\ \A i \in DOMAIN vectors : VotingVectorValid(vectors[i])

\* C9 as stated: aggregate_votes fails exactly when a precondition is
\* violated; an empty vector list yields an error, not a result.
C9_FailsExactlyOnPrecondition ==
    (pc = "returned" /\ call.fn = "aggregate_votes")
    => ((result.raised # <<>>) <=>
            ~AggregationPreconditions(call.voters, call.vectors))

AgentTypes(strategies) == {strategies[i].agent_type : i \in DOMAIN strategies}

\* C10: generate_strategies returns exactly fungal, bacterial and hybrid for
\* 'low', and these three plus CRISPR for 'medium' and 'high'.
C10_StrategyCount ==
    (ReturnedFrom("generate_strategies") /\ call.budget_tier \in BudgetTiers)
    => LET strategies == Value.strategies
           always == {"fungal_remediation", "bacterial_consortium",
                      "hybrid_remediation"}
       IN  /\ always \subseteq AgentTypes(strategies)
           /\ call.budget_tier = "low" =>
                  Len(strategies) = 3 /\ AgentTypes(strategies) = always
           /\ call.budget_tier \in {"medium", "high"} =>
                  /\ Len(strategies) = 4
                  /\ AgentTypes(strategies) = always \cup {"crispr_remediation"}

C10_Witness ==
    /\ ReturnedFrom("generate_strategies")
    /\ call.budget_tier = "medium"
    /\ Len(Value.strategies) = 4

\* position of the strategy of agent type t in the list
PositionOf(strategies, t) ==
    CHOOSE i \in DOMAIN strategies : strategies[i].agent_type = t

\* C11: for every budget tier the strategies returned by generate_strategies
\* are in non-increasing order of effectiveness, are a permutation of the
\* catalog of _generate_agent_strategies, and two strategies of equal
\* effectiveness keep their catalog order.
C11_SortedStablePermutation ==
    (ReturnedFrom("generate_strategies") /\ call.budget_tier \in BudgetTiers)
    => LET s   == Value.strategies
           cat == _generate_agent_strategies(call.budget_tier)
       IN  /\ \A i \in 1..(Len(s) - 1) :
                  s[i].effectiveness >= s[i + 1].effectiveness
           /\ Len(s) = Len(cat)
           /\ {s[i] : i \in DOMAIN s} = {cat[i] : i \in DOMAIN cat}
           /\ Cardinality({s[i] : i \in DOMAIN s}) = Len(s)
           /\ \A i, j \in DOMAIN cat :
                  (i < j /\ cat[i].effectiveness = cat[j].effectiveness)
                  => PositionOf(s, cat[i].agent_type)
                         < PositionOf(s, cat[j].agent_type)

\* 'medium': CRISPR (0.95) is declared third and returned first
C11_Witness ==
    /\ ReturnedFrom("generate_strategies")
    /\ call.budget_tier = "medium"
    /\ Value.strategies[1].agent_type = "crispr_remediation"
    /\ Value.strategies[4].agent_type = "bacterial_consortium"

\* C12 as stated: generate_strategies fails exactly for a budget tier other
\* than 'low', 'medium', 'high', and then produces no strategy list.
C12_UnrecognizedTierSignalled ==
    (pc = "returned" /\ call.fn = "generate_strategies")
    => /\ (result.raised # <<>>) <=> (call.budget_tier \notin BudgetTiers)
       /\ call.budget_tier \notin BudgetTiers => result.value = <<>>

\* the weight C14 gives a vector: its own when present (0.0 included), else 1.0
OwnWeight(v) == IF v.weight = <<>> THEN 100 ELSE v.weight[1]

\* C14 as stated: the aggregate score is Sum(score_i * w_i) / Sum(w_i) where
\* w_i is the vector's own weight when it is not null, an explicit 0.0
\* included, and 1.0 only when it is missing; with every weight null it is
\* the unweighted mean.  (Stated where the claim's denominator is positive.)
C14_OwnWeightUsed ==
    ReturnedFrom("aggregate_votes")
    => LET vectors == call.vectors
           a       == Value.aggregate_score
           sum_w   == SumSeq([i \in DOMAIN vectors |-> OwnWeight(vectors[i])])
           sum_sw  == SumSeq([i \in DOMAIN vectors |->
                                 vectors[i].score * OwnWeight(vectors[i])])
       IN  IF \A i \in DOMAIN vectors : vectors[i].weight = <<>>
           THEN a.num * Len(vectors) = a.den * SumSeq(Scores(vectors))
           ELSE sum_w > 0 => a.num * sum_w = a.den * sum_sw

\* n * Sum(x^2) - Sum(x)^2 of the scores, in hundredths squared: the variance
\* is this over n*(n-1) (sample) or over n*n (population)
SquaredDeviations(vectors) ==
    LET scores == Scores(vectors)
        n  == Len(scores)
    IN  n * SumSeq([i \in DOMAIN scores |-> scores[i] * scores[i]])
          - SumSeq(scores) * SumSeq(scores)

\* consensus (thousandths) is max(0, 1 - std/2) rounded to three places for
\* the std whose variance is SquaredDeviations / divisor: with
\* D = 1000 - consensus, |D - 500*std| <= 1/2 unless the maximum clamps at 0
ConsensusOfStd(consensus, vectors, divisor) ==
    LET D == 1000 - consensus
        N == SquaredDeviations(vectors)
    IN  /\ D >= 1 => (2 * D - 1) * (2 * D - 1) * divisor <= 100 * N
        /\ consensus > 0 => 100 * N <= (2 * D + 1) * (2 * D + 1) * divisor

TwoOrMoreNonZeroMean ==
    /\ ReturnedFrom("aggregate_votes")
    /\ Len(call.vectors) >= 2
    /\ SumSeq(Scores(call.vectors)) # 0

\* C15 as stated: for two or more vectors whose mean score is not zero the
\* consensus is max(0, 1 - std/2) rounded to three places, std being the
\* population standard deviation of the scores (divisor n).
C15_PopulationStd ==
    TwoOrMoreNonZeroMean
    => ConsensusOfStd(Value.voter_consensus, call.vectors,
                      Len(call.vectors) * Len(call.vectors))

\* C15 amended: the same with std the sample standard deviation of the
\* scores (divisor n - 1), as statistics.stdev computes it.
C15_SampleStd ==
    TwoOrMoreNonZeroMean
    => ConsensusOfStd(Value.voter_consensus, call.vectors,
                      Len(call.vectors) * (Len(call.vectors) - 1))

\* scores 0.9 and 0.85: sample std 0.0354, consensus 0.982 (population: 0.988)
C15_Witness ==
    /\ TwoOrMoreNonZeroMean
    /\ Scores(call.vectors) = <<90, 85>>
    /\ Value.voter_consensus = 982

\* C16: two or more vectors whose mean score is exactly zero give consensus
\* 1.0 whatever their spread, hence confidence 0.95, and with no per-vector
\* weights the recommendation NEEDS_REVIEW.
C16_ZeroMeanFullConsensus ==
    (/\ ReturnedFrom("aggregate_votes")
     /\ Len(call.vectors) >= 2
     /\ SumSeq(Scores(call.vectors)) = 0)
    => /\ Value.voter_consensus = 1000
       /\ Value.confidence = 950000
       /\ (\A i \in DOMAIN call.vectors : call.vectors[i].weight = <<>>)
              => Value.recommendation = "NEEDS_REVIEW"

\* the scores -0.5 and 0.5, unweighted
C16_Witness ==
    /\ ReturnedFrom("aggregate_votes")
    /\ Scores(call.vectors) = <<-50, 50>>
    /\ \A i \in DOMAIN call.vectors : call.vectors[i].weight = <<>>
    /\ Value.voter_consensus = 1000
    /\ Value.recommendation = "NEEDS_REVIEW"

\* min(0.95, 0.5 + 0.45 * c) in millionths, c in thousandths
CappedLine(c) == IF 500000 + 450 * c <= 950000 THEN 500000 + 450 * c ELSE 950000

\* C17: confidence is min(0.95, 0.5 + consensus * 0.45): it is determined by
\* the consensus alone, does not decrease as the consensus grows, and never
\* exceeds 0.95.
C17_ConfidenceOfConsensus ==
    ReturnedFrom("aggregate_votes")
    => /\ Value.confidence = CappedLine(Value.voter_consensus)
       /\ Value.confidence <= 950000
       /\ \A c \in ConsensusGrid :
              /\ c <= Value.voter_consensus
                     => Confidence(c) <= Value.confidence
              /\ c >= Value.voter_consensus
                     => Confidence(c) >= Value.confidence

\* consensus 0.982 gives confidence 0.9419, below the cap
C17_Witness ==
    /\ ReturnedFrom("aggregate_votes")
    /\ Value.voter_consensus = 982
    /\ Value.confidence = 941900

\* C18: the explanation names as strongest the first vector in input order
\* with the maximum score and as weakest the first with the minimum score;
\* its band is 'strong alignment' for aggregate > 0.7, 'moderate support'
\* for 0.3 < aggregate <= 0.7, 'mixed feedback' for -0.3 < aggregate <= 0.3
\* and 'significant concerns' for aggregate <= -0.3: exactly one band.
C18_ExplanationContent ==
    (ReturnedFrom("aggregate_votes") /\ call.vectors # <<>>)
    => LET vectors == call.vectors
           e == Value.explanation
           a == Value.aggregate_score
       IN  /\ \E i \in DOMAIN vectors :
                 /\ e.strongest = <<vectors[i].name>>
                 /\ \A j \in DOMAIN vectors : vectors[j].score <= vectors[i].score
                 /\ \A j \in 1..(i - 1) : vectors[j].score # vectors[i].score
           /\ \E i \in DOMAIN vectors :
                 /\ e.weakest = <<vectors[i].name>>
                 /\ \A j \in DOMAIN vectors : vectors[j].score >= vectors[i].score
                 /\ \A j \in 1..(i - 1) : vectors[j].score # vectors[i].score
           /\ e.band \in {"strong alignment", "moderate support",
                          "mixed feedback", "significant concerns"}
           /\ e.band = "strong alignment" <=> a.num > 70 * a.den
           /\ e.band = "moderate support"
                  <=> (a.num > 30 * a.den /\ a.num <= 70 * a.den)
           /\ e.band = "mixed feedback"
                  <=> (a.num > -30 * a.den /\ a.num <= 30 * a.den)
           /\ e.band = "significant concerns" <=> a.num <= -30 * a.den

\* the maximum 0.9 is attained by the first and the second vector
C18_Witness ==
    /\ ReturnedFrom("aggregate_votes")
    /\ Scores(call.vectors) = <<90, 90, 85>>
    /\ Value.explanation.strongest = <<call.vectors[1].name>>
    /\ Value.explanation.weakest = <<call.vectors[3].name>>
    /\ Value.explanation.band = "strong alignment"

\* C19: recommended_order is the identity sequence 0, 1, ..., n-1 over the
\* n returned strategies, for every tier.
C19_RecommendedOrderIdentity ==
    ReturnedFrom("generate_strategies")
    => /\ Len(Value.recommended_order) = Len(Value.strategies)
       /\ \A i \in DOMAIN Value.recommended_order :
              Value.recommended_order[i] = i - 1

\* 'medium': four strategies reordered by the sort, order 0, 1, 2, 3
C19_Witness ==
    /\ ReturnedFrom("generate_strategies")
    /\ call.budget_tier = "medium"
    /\ Value.strategies[1].agent_type = "crispr_remediation"
    /\ Value.recommended_order = <<0, 1, 2, 3>>

\* C20: total_timeline_days is the sum of timeline_days and combined_cost the
\* sum of cost_estimate over exactly the returned strategies, whatever their
\* order: the same sums over the unsorted catalog.
C20_TotalsAreSums ==
    ReturnedFrom("generate_strategies")
    => LET s   == Value.strategies
           cat == _generate_agent_strategies(call.budget_tier)
       IN  /\ Value.total_timeline_days
                  = SumSeq([i \in DOMAIN s |-> s[i].timeline_days])
           /\ Value.combined_cost
                  = SumSeq([i \in DOMAIN s |-> s[i].cost_estimate])
           /\ Value.total_timeline_days
                  = SumSeq([i \in DOMAIN cat |-> cat[i].timeline_days])
           /\ Value.combined_cost
                  = SumSeq([i \in DOMAIN cat |-> cat[i].cost_estimate])
           /\ call.budget_tier = "low"
                  => /\ Value.total_timeline_days = 300
                     /\ Value.combined_cost = 100000
           /\ call.budget_tier = "medium"
                  => /\ Value.total_timeline_days = 420
                     /\ Value.combined_cost = 285000
           /\ call.budget_tier = "high"
                  => /\ Value.total_timeline_days = 420
                     /\ Value.combined_cost = 395000

\* 'high': 150 + 120 + 90 + 60 days, 130000 + 120000 + 80000 + 65000
C20_Witness ==
    /\ ReturnedFrom("generate_strategies")
    /\ call.budget_tier = "high"
    /\ Len(Value.strategies) = 4
    /\ Value.total_timeline_days = 420
    /\ Value.combined_cost = 395000

\* the result of the invocation in frame f run alone, from its arguments
AloneResult(f) ==
    IF f.fn = "aggregate_votes"
    THEN aggregate_votes(f.policy_id, f.voters, f.vectors)
    ELSE generate_strategies(f.budget_tier)

\* C13: invocations of aggregate_votes and generate_strategies interleaved on
\* the shared service instances are independent: whatever the other
\* invocations in flight do, and however often an invocation is repeated,
\* each one returns the result it returns when run alone on its arguments.
C13_InvocationsIndependent ==
    \A k \in Slots :
        frames[k].pc = "done" => frames[k].value = <<AloneResult(frames[k])>>

\* a vote on -1.0 and 1.0 has returned while a vote on 0.9 and 0.85, begun
\* before it returned, has computed its own aggregate score and consensus
C13_Witness ==
    /\ frames[1].pc = "done"
    /\ frames[1].fn = "aggregate_votes"
    /\ Scores(frames[1].vectors) = <<-100, 100>>
    /\ frames[1].value[1].recommendation = "REJECT"
    /\ frames[2].fn = "aggregate_votes"
    /\ frames[2].pc = "recommendation"
    /\ Scores(frames[2].vectors) = <<90, 85>>
    /\ frames[2].aggregate_score # frames[1].aggregate_score

\* C21: every field of the result of aggregate_votes (timestamp aside) is
\* determined by policy_id and the vectors alone: the same call with any
\* other valid voter list (another count, other weights) returns the same
\* aggregate_score, vector_breakdown, voter_consensus, recommendation,
\* explanation and confidence.
C21_VotersDoNotMatter ==
    ReturnedFrom("aggregate_votes")
    => \A voters \in ServiceVoterLists :
           LET other == aggregate_votes(call.policy_id, voters, call.vectors)
           IN  /\ other.aggregate_score = Value.aggregate_score
               /\ other.vector_breakdown = Value.vector_breakdown
               /\ other.voter_consensus = Value.voter_consensus
               /\ other.recommendation = Value.recommendation
               /\ other.explanation = Value.explanation
               /\ other.confidence = Value.confidence

\* two voters of weight 0.5 on scores 0.9 and 0.85: consensus 0.982, as for
\* the single voter of weight 1.0
C21_Witness ==
    /\ ReturnedFrom("aggregate_votes")
    /\ call.voters = <<50, 50>>
    /\ Scores(call.vectors) = <<90, 85>>
    /\ Value.voter_consensus = 982
    /\ \E voters \in ServiceVoterLists : voters # call.voters

DistinctNames(vectors) ==
    \A i, j \in DOMAIN vectors : vectors[i].name = vectors[j].name => i = j

\* C22 as stated: when the vector names of a request are pairwise distinct
\* the vector_breakdown of the answer has exactly one entry per vector, keyed
\* by its name and holding its score unchanged; and a request with a
\* repeated vector name is rejected by the request validation.
C22_BreakdownOnePerVector ==
    (pc = "done" /\ request.path = "/v1/governance/vote")
    => /\ (response.status = 200 /\ DistinctNames(request.vectors))
              => LET b == response.body[1].vector_breakdown
                 IN  /\ DOMAIN b = {request.vectors[i].name :
                                      i \in DOMAIN request.vectors}
                     /\ Cardinality(DOMAIN b) = Len(request.vectors)
                     /\ \A i \in DOMAIN request.vectors :
                            b[request.vectors[i].name] = request.vectors[i].score
       /\ ~DistinctNames(request.vectors) => response.status = 422

\* the first half of C22 alone, for the requests that are answered
C22_DistinctNamesBreakdown ==
    (/\ pc = "done"
     /\ request.path = "/v1/governance/vote"
     /\ response.status = 200
     /\ DistinctNames(request.vectors))
    => LET b == response.body[1].vector_breakdown
       IN  /\ Cardinality(DOMAIN b) = Len(request.vectors)
           /\ \A i \in DOMAIN request.vectors :
                  b[request.vectors[i].name] = request.vectors[i].score

\* C23: for a non-empty vector list of which some weight is not null, the
\* denominator total_weight of _calculate_aggregate_score is strictly
\* positive, so the fallback 0.0 of the weighted branch is never returned:
\* the score is the weighted sum over total_weight, also when every vector
\* carries an explicit weight of 0.0.
C23_TotalWeightPositive ==
    (/\ ReturnedFrom("aggregate_votes")
     /\ \E i \in DOMAIN call.vectors : call.vectors[i].weight # <<>>)
    => LET vectors == call.vectors
           a       == Value.aggregate_score
           term(v) == IF v.weight # <<>> /\ v.weight[1] > 0
                      THEN v.weight[1] ELSE 100
           total_weight == SumSeq([i \in DOMAIN vectors |-> term(vectors[i])])
       IN  /\ total_weight > 0
           /\ a.den = total_weight
           /\ a.num = SumSeq([i \in DOMAIN vectors |->
                                 vectors[i].score * term(vectors[i])])

\* both vectors carry the explicit weight 0.0: total_weight is 2.0
C23_Witness ==
    /\ ReturnedFrom("aggregate_votes")
    /\ Len(call.vectors) = 2
    /\ \A i \in DOMAIN call.vectors : call.vectors[i].weight = <<0>>
    /\ Scores(call.vectors) = <<90, 85>>
    /\ Value.aggregate_score = [num |-> 17500, den |-> 200]

\* C24: for three or more vectors with scores in [-1, 1] the consensus is at
\* least 0.3, so REJECT is returned for them only when the aggregate score
\* is below -0.4; for any vector list the consensus is strictly greater
\* than 0: the clamp max(0, .) never takes effect and the except clause
\* (return 0.5) is never taken.
C24_ConsensusFloor ==
    ReturnedFrom("aggregate_votes")
    => LET a == Value.aggregate_score
       IN  /\ Len(call.vectors) >= 3
                  => /\ Value.voter_consensus >= 300
                     /\ Value.recommendation = "REJECT"
                            => a.num < -40 * a.den
           /\ Value.voter_consensus > 0
           /\ ConsensusBranch(call.vectors) \notin {"clamped", "except"}

\* scores 1.0, 1.0 and -1.0, the widest spread three scores of non-zero mean
\* can have: std 1.155, consensus 0.423
C24_Witness ==
    /\ ReturnedFrom("aggregate_votes")
    /\ Scores(call.vectors) = <<100, 100, -100>>
    /\ ConsensusBranch(call.vectors) = "formula"
    /\ Value.voter_consensus = 423

\* a is not above b, as fractions
NotAbove(a, b) == a.num * b.den <= b.num * a.den

\* C25 as stated: for every list of stakeholder votes, the empty list
\* included, calculate_consensus returns a mapping holding the key
\* overall_consensus, so recommend_policy applied to it returns a
\* recommendation; with all scores in [0, 1] the key_concern is one of the
\* four vectors, one of lowest mean score, never overall_consensus.
C25_RecommendPolicyTotal ==
    (pc = "returned" /\ call.fn = "recommend_policy")
    => LET consensus == calculate_consensus(call.votes)
       IN  /\ "overall_consensus" \in DOMAIN consensus
           /\ result.raised = <<>>
           /\ Value.recommendation \in
                  {"STRONGLY RECOMMENDED", "RECOMMENDED",
                   "REQUIRES REVISION", "NOT RECOMMENDED"}
           /\ \E i \in DOMAIN VECTORS :
                  /\ Value.key_concern = VECTORS[i]
                  /\ \A j \in DOMAIN VECTORS :
                         NotAbove(consensus[VECTORS[i]], consensus[VECTORS[j]])

\* the second half of C25 alone, for the calls that return
C25_KeyConcernLowest ==
    ReturnedFrom("recommend_policy")
    => LET consensus == Value.consensus_scores
       IN  \E i \in DOMAIN VECTORS :
               /\ Value.key_concern = VECTORS[i]
               /\ \A j \in DOMAIN VECTORS :
                      NotAbove(consensus[VECTORS[i]], consensus[VECTORS[j]])

====
